---- MODULE Spec2Model ----
(***************************************************************************)
(* A model of the mindbank dashboard core: the exchange-rate provider      *)
(* (utils/currency.py) and the position calculator (utils/calculations.py).*)
(*                                                                         *)
(* Units.  Time is in whole seconds.  A rate is an integer number of       *)
(* ten-thousandths (0.8542 is 8542), which is the precision                *)
(* fetch_rate_from_api rounds to; the number the network sends is in       *)
(* hundred-thousandths (0.85423 is 85423), one digit finer, so that the    *)
(* rounding does something.  Money is in whole cents, a goal percentage in *)
(* whole percent.                                                          *)
(*                                                                         *)
(* Python's round() works on the binary value of a float: on a number that *)
(* is an exact decimal tie (x.xx5) the float lies a hair to one side, and  *)
(* which side depends on the operands.  RoundDiv therefore takes the tie's *)
(* direction as an argument, and the actions draw it from BOOLEAN.         *)
(***************************************************************************)
EXTENDS Integers, Sequences, FiniteSets, TLC

VARIABLES
    cache,      \* the content of data/exchange_rates.json
    now,        \* datetime.now(), in seconds
    ticks,      \* how often the clock has advanced (bounds the model)
    last,       \* the provider operation that ran last: inputs and outcome
    promise,    \* history: the rate a fetch of get_exchange_rate obtained, and when
    today,      \* the calendar date datetime.now() falls on: day and month length
    calc,       \* the calculator operation that ran last: inputs and outcome
    configFile, \* the content of data/user_config.json
    assetsFile, \* the content of data/assets.json
    api,        \* the loader or request handler that ran last: inputs and outcome
    threads,    \* the calls in flight on other threads: position and locals of each
    stored      \* history: the entry the last successful write of a fetched rate stored

vars == <<cache, now, ticks, last, promise, today, calc, configFile, assetsFile, api,
          threads, stored>>

-----------------------------------------------------------------------------
(* Bounds of the model *)

MaxTicks == 2

T0 == 7200

-----------------------------------------------------------------------------
(* Values *)

Val(v) == [tag |-> "val", v |-> v]
NoneV  == [tag |-> "none", v |-> 0]
ExcV   == [tag |-> "exc", v |-> 0]

\* Python truthiness of a number-or-None: None and 0 are false
Truthy(x) == x.tag = "val" /\ x.v # 0

\* round(n / d) for d > 0; up decides an exact tie
RoundDiv(n, d, up) ==
    LET q == n \div d
        r == n % d
    IN  IF 2 * r > d THEN q + 1
        ELSE IF 2 * r < d THEN q
        ELSE IF up THEN q + 1 ELSE q

\* int(n / d) for d > 0: truncation toward zero
TruncDiv(n, d) == IF n >= 0 THEN n \div d ELSE -((-n) \div d)

-----------------------------------------------------------------------------
(* utils/currency.py *)

CACHE_DURATION_HOURS == 1
SecondsPerHour == 3600
FALLBACK_RATE == 8500

CacheDuration == CACHE_DURATION_HOURS * SecondsPerHour

\* The cache file.  kind says how far a reader gets with it:
\*   "missing"  no file                  "badjson"  json.load raises
\*   "notmap"   JSON, but not a mapping  "nots"     no 'timestamp' key
\*   "badts"    timestamp does not parse "norate"   timestamp fine, no 'rate' key
\*   "ok"       rate and timestamp
\* source is "" when the file has no 'source' key.
File(kind, rate, ts, source) ==
    [kind |-> kind, rate |-> rate, ts |-> ts, source |-> source]

MissingFile == File("missing", 0, 0, "")
TruncatedFile == File("badjson", 0, 0, "")

FileExists(f) == f.kind # "missing"

\* get_cached_rate without its try/except: ExcV where a statement raises
GetCachedRateBody(f, t) ==
    IF ~FileExists(f) THEN NoneV
    ELSE IF f.kind \in {"badjson", "notmap", "nots", "badts"} THEN ExcV
    ELSE IF t - f.ts < CacheDuration
         THEN (IF f.kind = "norate" THEN ExcV ELSE Val(f.rate))
         ELSE NoneV

GetCachedRateStale(f, t) ==
    LET r == GetCachedRateBody(f, t)
    IN  IF r.tag = "exc" THEN NoneV
        ELSE IF f.kind = "ok" THEN Val(f.rate) ELSE r

GetCachedRateDefaultRate(f, t) ==
    LET r == GetCachedRateBody(f, t)
    IN  IF r.tag = "exc"
        THEN (IF f.kind = "norate" /\ t - f.ts < CacheDuration
              THEN Val(FALLBACK_RATE) ELSE NoneV)
        ELSE r

GetCachedRateInclusive(f, t) ==
    LET r == GetCachedRateBody(f, t)
    IN  IF r.tag = "exc" THEN NoneV
        ELSE IF f.kind = "ok" /\ t - f.ts = CacheDuration THEN Val(f.rate) ELSE r

GetCachedRateRaises(f, t) == GetCachedRateBody(f, t)

GetCachedRate(f, t) ==
    LET r == GetCachedRateBody(f, t)
    IN  IF r.tag = "exc" THEN NoneV ELSE r

\* cache_rate without its try/except.  w is what the storage does with the
\* write: "ok", "denied" (makedirs or open raises, the file is untouched) or
\* "truncated" (open has emptied the file and the dump raises).
CacheRateBody(f, rate, t, w) ==
    IF w = "ok" THEN [file |-> File("ok", rate, t, "api"), exc |-> FALSE]
    ELSE IF w = "denied" THEN [file |-> f, exc |-> TRUE]
    ELSE [file |-> TruncatedFile, exc |-> TRUE]

CacheRateUnguarded(f, rate, t, w) == CacheRateBody(f, rate, t, w)

CacheRate(f, rate, t, w) ==
    [file |-> CacheRateBody(f, rate, t, w).file, exc |-> FALSE]

\* The answer of the rate endpoint:
\*   "error"   connection error, timeout, non-2xx status, body is not JSON
\*   "norates" no 'rates' key       "noeur"  no 'EUR' key in rates
\*   "nonnum"  EUR is not a number  "num"    EUR is the number raw
\* up is the side round(eur_rate, 4) falls to when raw is an exact tie.
Resp(kind, raw, up) == [kind |-> kind, raw |-> raw, up |-> up]

FetchRateFromApi(resp) ==
    IF resp.kind \in {"error", "norates", "noeur", "nonnum"} THEN NoneV
    ELSE IF resp.raw # 0 THEN Val(RoundDiv(resp.raw, 10, resp.up))
    ELSE NoneV

\* The outcome of a provider operation
Outcome(ret, fetched, file, raised, wrote, cacheExc) ==
    [ret |-> ret, fetched |-> fetched, file |-> file, raised |-> raised,
     wrote |-> wrote, cacheExc |-> cacheExc]

GetExchangeRate(f, t, resp, w) ==
    LET cached_rate == GetCachedRate(f, t)
        api_rate == FetchRateFromApi(resp)
        written == CacheRate(f, api_rate.v, t, w)
    IN  IF cached_rate.tag = "exc" \/ api_rate.tag = "exc"
        THEN Outcome(Val(FALLBACK_RATE), FALSE, f, FALSE, FALSE, FALSE)
        ELSE IF Truthy(cached_rate)
        THEN Outcome(cached_rate, FALSE, f, FALSE, FALSE, FALSE)
        ELSE IF Truthy(api_rate)
        THEN (IF written.exc
              THEN Outcome(Val(FALLBACK_RATE), TRUE, written.file, FALSE, TRUE, TRUE)
              ELSE Outcome(api_rate, TRUE, written.file, FALSE, TRUE, FALSE))
        ELSE Outcome(Val(FALLBACK_RATE), TRUE, f, FALSE, FALSE, FALSE)

\* get_rate_info: last_updated is "Never", "Error" or "ts" (then ts holds it)
Info(rate, source, last_updated, ts, cache_valid, age, error) ==
    [rate |-> rate, source |-> source, last_updated |-> last_updated, ts |-> ts,
     cache_valid |-> cache_valid, cache_age_minutes |-> age, error |-> error]

NoInfo == Info(0, "", "", 0, FALSE, 0, FALSE)

\* What get_rate_info reports; file is the cache file as the call leaves it
RateInfoBody(f, t) ==
    IF ~FileExists(f)
    THEN Info(FALLBACK_RATE, "fallback", "Never", 0, FALSE, 0, FALSE)
    ELSE IF f.kind \in {"badjson", "notmap", "nots", "badts"}
    THEN Info(FALLBACK_RATE, "fallback", "Error", 0, FALSE, 0, TRUE)
    ELSE Info(IF f.kind = "norate" THEN FALLBACK_RATE ELSE f.rate,
              IF f.source = "" THEN "unknown" ELSE f.source,
              "ts", f.ts,
              t - f.ts < CacheDuration,
              TruncDiv(t - f.ts, 60),
              FALSE)

GetRateInfoDropsBadFile(f, t) ==
    [info |-> RateInfoBody(f, t),
     file |-> IF RateInfoBody(f, t).error \/ ~RateInfoBody(f, t).cache_valid
              THEN MissingFile ELSE f]

GetRateInfo(f, t) == [info |-> RateInfoBody(f, t), file |-> f]

\* usd is [tag, v]: tag "num" with v cents, or tag "str" for a non-number
ConvertUsdToEur(usd, f, t, resp, w, up) ==
    IF usd.tag # "num" \/ usd.v < 0
    THEN Outcome(Val(0), FALSE, f, FALSE, FALSE, FALSE)
    ELSE LET o == GetExchangeRate(f, t, resp, w)
         IN  [o EXCEPT !.ret = Val(RoundDiv(usd.v * o.ret.v, 10000, up))]

\* rmOk: whether os.remove succeeds on an existing file
RefreshExchangeRate(f, t, rmOk, resp, w) ==
    LET removed == IF FileExists(f) THEN MissingFile ELSE f
        new_rate == FetchRateFromApi(resp)
        written == CacheRate(removed, new_rate.v, t, w)
    IN  IF FileExists(f) /\ ~rmOk
        THEN Outcome(Val(FALLBACK_RATE), FALSE, f, FALSE, FALSE, FALSE)
        ELSE IF Truthy(new_rate)
        THEN (IF written.exc
              THEN Outcome(Val(FALLBACK_RATE), TRUE, written.file, FALSE, TRUE, TRUE)
              ELSE Outcome(new_rate, TRUE, written.file, FALSE, TRUE, FALSE))
        ELSE Outcome(Val(FALLBACK_RATE), TRUE, removed, FALSE, FALSE, FALSE)

-----------------------------------------------------------------------------
(* utils/calculations.py *)

\* A date is [day, dim]: now.day and calendar.monthrange(now.year, now.month)[1].
\* salary is in cents, goal in percent, the result in cents;
\* up is the side round(x, 2) falls to on an exact tie.
CalculateRealizedMonthlyIncome(salary, goal, date, up) ==
    IF salary = 0 \/ salary <= 0 \/ goal < 0 THEN 0
    ELSE RoundDiv(date.day * salary * goal, date.dim * 100, up)

PotentialForOneDay(salary, goal, date, up) ==
    IF salary = 0 \/ salary <= 0 \/ goal < 0 THEN 0
    ELSE RoundDiv(salary * goal, date.dim * 100, up)

PotentialCountsToday(salary, goal, date, up) ==
    LET remaining_days == date.dim - date.day + 1
    IN  IF salary = 0 \/ salary <= 0 \/ goal < 0 THEN 0
        ELSE IF remaining_days <= 0 THEN 0
        ELSE RoundDiv(remaining_days * salary * goal, date.dim * 100, up)

CalculatePotentialDailyIncome(salary, goal, date, up) ==
    LET remaining_days == date.dim - date.day
    IN  IF salary = 0 \/ salary <= 0 \/ goal < 0 THEN 0
        ELSE IF remaining_days <= 0 THEN 0
        ELSE RoundDiv(remaining_days * salary * goal, date.dim * 100, up)

\* calculate_realized_income and calculate_potential_income on numbers
CalculateRealizedIncome(salary, date, up) ==
    IF salary = 0 \/ salary <= 0 THEN 0
    ELSE RoundDiv(date.day * salary, date.dim, up)

PotentialIncomeOfRemainingDays(salary, goal, date, up) ==
    CalculatePotentialDailyIncome(salary, goal, date, up)

CalculatePotentialIncome(salary, goal, date, up) ==
    IF salary = 0 \/ salary <= 0 \/ goal < 0 THEN 0
    ELSE RoundDiv(salary * goal, date.dim * 100, up)

\* Python values other than numbers: a string is StrV(its length), a list is
\* ListV(its length); None is NoneV and a number n is Val(n)
StrV(len) == [tag |-> "str", v |-> len]
ListV(len) == [tag |-> "list", v |-> len]

\* `not x`
Not(x) == x.tag = "none" \/ x.v = 0

\* `x <= 0` and `x < 0`: an ordering comparison of a non-number with an int
\* raises TypeError
\* The float NaN; every comparison with it is false, arithmetic with it gives it
NaNV == [tag |-> "nan", v |-> 1]

LeZero(x) ==
    CASE x.tag = "nan" -> "false"
      [] x.tag = "val" -> IF x.v <= 0 THEN "true" ELSE "false"
      [] OTHER         -> "raise"

LtZero(x) ==
    CASE x.tag = "nan" -> "false"
      [] x.tag = "val" -> IF x.v < 0 THEN "true" ELSE "false"
      [] OTHER         -> "raise"

\* The guard in front of the try block of the income functions, evaluated left
\* to right with short circuit: "zero" (return 0), "raise" or "pass"
SalaryGuard(salary) ==
    IF Not(salary) THEN "zero"
    ELSE IF LeZero(salary) = "raise" THEN "raise"
    ELSE IF LeZero(salary) = "true" THEN "zero"
    ELSE "pass"

SalaryGoalGuard(salary, goal) ==
    IF SalaryGuard(salary) # "pass" THEN SalaryGuard(salary)
    ELSE IF LtZero(goal) = "raise" THEN "raise"
    ELSE IF LtZero(goal) = "true" THEN "zero"
    ELSE "pass"

\* A call of an income function: guard is its guard's outcome, fails the number
\* of reads of datetime.now() that raise from now on, value the body's result.
\* The body reads the clock once, inside try / except Exception: return 0.
IncomeCall(guard, fails, value) ==
    CASE guard = "raise" -> ExcV
      [] guard = "zero"  -> Val(0)
      [] OTHER           -> IF fails > 0 THEN Val(0) ELSE value

\* The result of arithmetic on x and y: NaN when one of them is, else Val(n)
Arith(x, y, n) == IF x.tag = "nan" \/ y.tag = "nan" THEN NaNV ELSE Val(n)

\* The four income functions on Python values
IncomeFunctions(salary, goal, date, fails, up) ==
    [calculate_realized_income |->
        IncomeCall(SalaryGuard(salary), fails,
                   Arith(salary, salary,
                         CalculateRealizedIncome(salary.v, date, up))),
     calculate_potential_income |->
        IncomeCall(SalaryGoalGuard(salary, goal), fails,
                   Arith(salary, goal,
                         CalculatePotentialIncome(salary.v, goal.v, date, up))),
     calculate_realized_monthly_income |->
        IncomeCall(SalaryGoalGuard(salary, goal), fails,
                   Arith(salary, goal,
                         CalculateRealizedMonthlyIncome(salary.v, goal.v, date, up))),
     calculate_potential_daily_income |->
        IncomeCall(SalaryGoalGuard(salary, goal), fails,
                   Arith(salary, goal,
                         CalculatePotentialDailyIncome(salary.v, goal.v, date, up)))]

\* The snapshot calculate_monthly_progress returns; progress_percentage is in
\* tenths of a percent
Progress(raised, day, dim, progress, remaining, known) ==
    [raised |-> raised, current_day |-> day, days_in_month |-> dim,
     progress_percentage |-> progress, remaining_days |-> remaining,
     month_known |-> known]

DefaultProgress == Progress(FALSE, 1, 30, 0, 29, FALSE)

ProgressRaised == Progress(TRUE, 0, 0, 0, 0, FALSE)

\* calculate_monthly_progress: the try block reads datetime.now() once, and
\* the except block reads it again for the year of the default snapshot
CalculateMonthlyProgress(date, fails, up) ==
    IF fails = 0
    THEN Progress(FALSE, date.day, date.dim, RoundDiv(date.day * 1000, date.dim, up),
                  date.dim - date.day, TRUE)
    ELSE IF fails = 1 THEN DefaultProgress
    ELSE ProgressRaised

\* validate_percentage; value is in hundredths of a percent when a number
ValidatePercentageExclusive(value) ==
    IF value.tag # "val" THEN "TypeError"
    ELSE IF value.v <= 0 \/ value.v >= 10000 THEN "ValueError"
    ELSE "True"

ValidatePercentage(value) ==
    IF value.tag # "val" THEN "TypeError"
    ELSE IF value.v < 0 \/ value.v > 10000 THEN "ValueError"
    ELSE "True"

\* An asset mapping: each of the four fields is Val(cents) or NoneV (no key)
Assets(bank, eur, usd, inv) ==
    [bank_balance |-> bank, cash_eur |-> eur, cash_usd |-> usd, investments |-> inv]

\* assets.get(key, 0)
AssetGet(assets, key) == IF assets[key].tag = "val" THEN assets[key].v ELSE 0

\* calculate_total_assets: exchange_rate is NoneV or Val(rate).  lookups counts
\* the calls of get_exchange_rate the function makes.  The three EUR fields are
\* whole cents, so rounding the sum to cents rounds the converted USD.
TotalAssetsLooksUpRate(assets, exchange_rate, up) ==
    LET rate == IF exchange_rate.tag = "val" THEN exchange_rate.v ELSE FALLBACK_RATE
    IN  [total |-> AssetGet(assets, "bank_balance") + AssetGet(assets, "cash_eur")
                   + RoundDiv(AssetGet(assets, "cash_usd") * rate, 10000, up)
                   + AssetGet(assets, "investments"),
         lookups |-> IF exchange_rate.tag = "val" THEN 0 ELSE 1]

CalculateTotalAssets(assets, exchange_rate, up) ==
    LET cash_usd_in_eur ==
            IF exchange_rate.tag # "none"
            THEN RoundDiv(AssetGet(assets, "cash_usd") * exchange_rate.v, 10000, up)
            ELSE AssetGet(assets, "cash_usd")
    IN  [total |-> AssetGet(assets, "bank_balance") + AssetGet(assets, "cash_eur")
                   + cash_usd_in_eur + AssetGet(assets, "investments"),
         lookups |-> 0]

\* The two income functions called with a percentage that has a fractional
\* part: pct is in hundredths of a percent (72.58 is 7258).
RealizedMonthlyIncomeOf(salary, pct, date, up) ==
    IF salary = 0 \/ salary <= 0 \/ pct < 0 THEN 0
    ELSE RoundDiv(date.day * salary * pct, date.dim * 10000, up)

PotentialDailyIncomeOf(salary, pct, date, up) ==
    LET remaining_days == date.dim - date.day
    IN  IF salary = 0 \/ salary <= 0 \/ pct < 0 THEN 0
        ELSE IF remaining_days <= 0 THEN 0
        ELSE RoundDiv(remaining_days * salary * pct, date.dim * 10000, up)

\* `x or 0` of a number or None
OrZero(x) == IF Truthy(x) THEN x.v ELSE 0

\* calculate_global_position while the clock moves: the two income
\* functions read datetime.now() one after the other, the first on date, the
\* second on later
GlobalPositionDuring(assets, second, third, exchange_rate, date, later, up) ==
    LET total_assets == CalculateTotalAssets(assets, exchange_rate, up.rate).total
    IN  IF second.tag = "val" /\ third.tag = "val"
        THEN IF 0 <= third.v /\ third.v <= 10000
             THEN total_assets
                  + RealizedMonthlyIncomeOf(second.v, third.v, date, up.realized)
                  + PotentialDailyIncomeOf(second.v, third.v, later, up.potential)
             ELSE total_assets + second.v + third.v
        ELSE total_assets
             + RealizedMonthlyIncomeOf(OrZero(second), OrZero(third), date, up.realized)
             + PotentialDailyIncomeOf(OrZero(second), OrZero(third), later, up.potential)

\* Were the third argument alone to decide the form
GlobalPositionByThird(assets, second, third, exchange_rate, date, up) ==
    LET total_assets == CalculateTotalAssets(assets, exchange_rate, up.rate).total
    IN  IF third.tag = "val" /\ 0 <= third.v /\ third.v <= 10000
        THEN total_assets
             + RealizedMonthlyIncomeOf(OrZero(second), third.v, date, up.realized)
             + PotentialDailyIncomeOf(OrZero(second), third.v, date, up.potential)
        ELSE IF second.tag = "val" /\ third.tag = "val"
        THEN total_assets + second.v + third.v
        ELSE 0

\* calculate_global_position(assets, second, third, exchange_rate): second
\* and third are Val(n) or NoneV, n an amount in cents, which is also the
\* number n/100 in hundredths when the code reads it as a percentage.
\* The whole call falls on one date.
CalculateGlobalPosition(assets, second, third, exchange_rate, date, up) ==
    GlobalPositionDuring(assets, second, third, exchange_rate, date, date, up)

-----------------------------------------------------------------------------
(* utils/data_manager.py *)

\* A Python dict, or a JSON object, is a function from its keys to its values
EmptyDict == [k \in {} |-> NoneV]
DictGet(d, key, default) == IF key \in DOMAIN d THEN d[key] ELSE default
DictPutAlone(d, key, value) == [k \in {key} |-> value]

DictPut(d, key, value) ==
    [k \in DOMAIN d \cup {key} |-> IF k = key THEN value ELSE d[k]]

\* The content of a JSON file, and a value json.load returns: kind is
\* "missing", "corrupt" (not JSON), "list" (JSON, but not an object) or "map"
Stored(kind, d) == [kind |-> kind, d |-> d]
NoFile == Stored("missing", EmptyDict)
CorruptFile == Stored("corrupt", EmptyDict)
ListFile == Stored("list", EmptyDict)
MapFile(d) == Stored("map", d)

\* What a call of a loader or a saver did: whether it raised, the value it
\* returned (for a saver, the mapping it was given, as it left it), the file
Loaded(raised, value, file) == [raised |-> raised, value |-> value, file |-> file]

DefaultConfig(t) ==
    [monthly_salary |-> Val(0), daily_goal_percentage |-> Val(0),
     created_at |-> Val(t), updated_at |-> Val(t)]

DefaultAssets(t) ==
    [bank_balance |-> Val(0), cash_eur |-> Val(0), cash_usd |-> Val(0),
     investments |-> Val(0), created_at |-> Val(t), updated_at |-> Val(t)]

\* open(path, 'w') and json.dump under w: "ok", "denied" (open raises, the
\* file is as before) or "truncated" (open emptied the file, the dump raised)
WriteJson(d, file, w) ==
    CASE w = "ok"     -> MapFile(d)
      [] w = "denied" -> file
      [] OTHER        -> CorruptFile

\* save_config and save_assets: stamp updated_at, write, raise when the write
\* failed
SaveConfigSwallowsFailure(config, file, w, t) ==
    LET data == DictPut(config, "updated_at", Val(t))
    IN  Loaded(FALSE, MapFile(data), WriteJson(data, file, w))

SaveConfig(config, file, w, t) ==
    LET data == DictPut(config, "updated_at", Val(t))
    IN  Loaded(w # "ok", MapFile(data), WriteJson(data, file, w))

SaveAssets(assets, file, w, t) ==
    LET data == DictPut(assets, "updated_at", Val(t))
    IN  Loaded(w # "ok", MapFile(data), WriteJson(data, file, w))

\* backup_file: the file is renamed, or removed when the rename fails
BackupFile(file) == IF file.kind # "missing" THEN NoFile ELSE file

\* load_config and load_assets under rd, the outcome of opening an existing
\* file for reading ("ok" or "denied"), and w, the outcome of the write of the
\* defaults.  Only FileNotFoundError and JSONDecodeError are handled.
LoadConfig(file, rd, w, t) ==
    IF file.kind = "missing" THEN
        LET s == SaveConfig(DefaultConfig(t), file, w, t)
        IN  Loaded(s.raised, s.value, s.file)
    ELSE IF rd = "denied" THEN Loaded(TRUE, NoFile, file)
    ELSE IF file.kind = "corrupt" THEN
        LET s == SaveConfig(DefaultConfig(t), BackupFile(file), w, t)
        IN  Loaded(s.raised, s.value, s.file)
    ELSE Loaded(FALSE, file, file)

LoadAssets(file, rd, w, t) ==
    IF file.kind = "missing" THEN
        LET s == SaveAssets(DefaultAssets(t), file, w, t)
        IN  Loaded(s.raised, s.value, s.file)
    ELSE IF rd = "denied" THEN Loaded(TRUE, NoFile, file)
    ELSE IF file.kind = "corrupt" THEN
        LET s == SaveAssets(DefaultAssets(t), BackupFile(file), w, t)
        IN  Loaded(s.raised, s.value, s.file)
    ELSE Loaded(FALSE, file, file)

-----------------------------------------------------------------------------
(* app.py: the update handlers *)

\* Values of a request's JSON fields besides numbers, strings and lists: null,
\* and the text of a number ("50" is NumStr(50), "nan" is NaNStr)
NullV == [tag |-> "null", v |-> 0]
NumStr(n) == [tag |-> "numstr", v |-> n]
NaNStr == [tag |-> "nanstr", v |-> 1]

\* float(x); ExcV stands for the ValueError or TypeError it raises
FloatOrZero(x) ==
    CASE x.tag \in {"val", "nan"} -> x
      [] x.tag = "numstr"         -> Val(x.v)
      [] x.tag = "nanstr"         -> NaNV
      [] OTHER                    -> Val(0)

Float(x) ==
    CASE x.tag \in {"val", "nan"} -> x
      [] x.tag = "numstr"         -> Val(x.v)
      [] x.tag = "nanstr"         -> NaNV
      [] OTHER                    -> ExcV

\* `x < 0` and `0 <= x <= 100` on floats
Negative(x) == x.tag = "val" /\ x.v < 0
InPercentRange(x) == x.tag = "val" /\ 0 <= x.v /\ x.v <= 100

\* A request body: kind is "notjson", "null" or "map" (a JSON object d)
Request(kind, d) == [kind |-> kind, d |-> d]

\* The handler's call of save_config or save_assets, when it made one
NoSave == [attempted |-> FALSE, raised |-> FALSE]
SaveOf(s) == [attempted |-> TRUE, raised |-> s.raised]

\* What a handler did: the response, the two files, its save
Handled(status, body, cfile, afile, save) ==
    [status |-> status, success |-> status = 200, body |-> body,
     configFile |-> cfile, assetsFile |-> afile, save |-> save]

AssetFields == {"bank_balance", "cash_eur", "cash_usd", "investments"}
ConfigFields == {"monthly_salary", "daily_goal_percentage"}

\* update_assets (POST /api/update-assets)
UpdateAssets(req, cfile, afile, io, t) ==
    IF req.kind # "map" THEN Handled(400, EmptyDict, cfile, afile, NoSave)
    ELSE IF ~(AssetFields \subseteq DOMAIN req.d)
    THEN Handled(400, EmptyDict, cfile, afile, NoSave)
    ELSE IF \E f \in AssetFields : Float(req.d[f]) = ExcV
    THEN Handled(400, EmptyDict, cfile, afile, NoSave)
    ELSE LET assets == [f \in AssetFields |-> Float(req.d[f])]
             s == SaveAssets(assets, afile, io.w, t)
         IN  IF s.raised THEN Handled(500, EmptyDict, cfile, s.file, SaveOf(s))
             ELSE Handled(200, s.value.d, cfile, s.file, SaveOf(s))

\* update_config (POST /api/update-config)
UpdateConfig(req, cfile, afile, io, t) ==
    IF req.kind # "map" THEN Handled(400, EmptyDict, cfile, afile, NoSave)
    ELSE IF ~(ConfigFields \subseteq DOMAIN req.d)
    THEN Handled(400, EmptyDict, cfile, afile, NoSave)
    ELSE LET monthly_salary == Float(req.d["monthly_salary"])
             daily_goal_percentage == Float(req.d["daily_goal_percentage"])
             config == [monthly_salary |-> monthly_salary,
                        daily_goal_percentage |-> daily_goal_percentage]
             s == SaveConfig(config, cfile, io.w, t)
         IN  IF monthly_salary = ExcV \/ daily_goal_percentage = ExcV
             THEN Handled(400, EmptyDict, cfile, afile, NoSave)
             ELSE IF Negative(monthly_salary)
             THEN Handled(400, EmptyDict, cfile, afile, NoSave)
             ELSE IF ~InPercentRange(daily_goal_percentage)
             THEN Handled(400, EmptyDict, cfile, afile, NoSave)
             ELSE IF s.raised THEN Handled(500, EmptyDict, s.file, afile, SaveOf(s))
             ELSE Handled(200, s.value.d, s.file, afile, SaveOf(s))

\* The four asset fields of a loaded mapping, as calculate_total_assets reads them
AssetsOf(d) ==
    Assets(DictGet(d, "bank_balance", NoneV), DictGet(d, "cash_eur", NoneV),
           DictGet(d, "cash_usd", NoneV), DictGet(d, "investments", NoneV))

\* calculate_global_position(assets, realized_income, potential_income) as
\* update_daily_goal calls it on what load_assets returned: 0 when the body
\* raises (assets is no mapping), NaN when a term of the sum is NaN
GlobalPositionOf(assets, realized, potential, date, up) ==
    IF assets.kind # "map" THEN Val(0)
    ELSE IF \/ realized.tag = "nan" \/ potential.tag = "nan"
            \/ \E f \in AssetFields \cap DOMAIN assets.d : assets.d[f].tag = "nan"
    THEN NaNV
    ELSE Val(CalculateGlobalPosition(AssetsOf(assets.d), realized, potential,
                                     NoneV, date, up))

\* update_daily_goal (POST /api/daily-goal)
UpdateDailyGoal(req, cfile, afile, io, t, date, up) ==
    IF req.kind # "map" THEN Handled(400, EmptyDict, cfile, afile, NoSave)
    ELSE IF "goal_percentage" \notin DOMAIN req.d
    THEN Handled(400, EmptyDict, cfile, afile, NoSave)
    ELSE LET goal_percentage == Float(req.d["goal_percentage"])
             l == LoadConfig(cfile, io.rd_config, io.w_config, t)
             config == DictPut(l.value.d, "daily_goal_percentage", goal_percentage)
             s == SaveConfig(config, l.file, io.w, t)
             a == LoadAssets(afile, io.rd_assets, io.w_assets, t)
             monthly_salary == DictGet(s.value.d, "monthly_salary", Val(0))
             incomes == IncomeFunctions(monthly_salary, goal_percentage, date, 0,
                                        up.realized)
             realized_income == incomes.calculate_realized_income
             potential_income == incomes.calculate_potential_income
         IN  IF goal_percentage = ExcV
             THEN Handled(400, EmptyDict, cfile, afile, NoSave)
             ELSE IF ~InPercentRange(goal_percentage)
             THEN Handled(400, EmptyDict, cfile, afile, NoSave)
             ELSE IF l.raised THEN Handled(500, EmptyDict, l.file, afile, NoSave)
             ELSE IF l.value.kind # "map"
             THEN Handled(500, EmptyDict, l.file, afile, NoSave)
             ELSE IF s.raised THEN Handled(500, EmptyDict, s.file, afile, SaveOf(s))
             ELSE IF a.raised THEN Handled(500, EmptyDict, s.file, a.file, SaveOf(s))
             ELSE IF realized_income = ExcV \/ potential_income = ExcV
             THEN Handled(500, EmptyDict, s.file, a.file, SaveOf(s))
             ELSE Handled(200,
                          [potential_income |-> potential_income,
                           global_position |->
                               GlobalPositionOf(a.value, realized_income,
                                                potential_income, date, up),
                           goal_percentage |-> goal_percentage],
                          s.file, a.file, SaveOf(s))

-----------------------------------------------------------------------------
(* app.py: the dashboard handlers *)

\* Whether a term of the asset sum is NaN
AssetsNaN(assets) ==
    \E f \in AssetFields \cap DOMAIN assets.d : assets.d[f].tag = "nan"

\* calculate_total_assets(assets, exchange_rate) on what load_assets returned;
\* it raises when assets is no mapping (the except block calls assets.get too)
TotalAssetsAt(assets, exchange_rate, up) ==
    IF assets.kind # "map" THEN ExcV
    ELSE IF AssetsNaN(assets) THEN NaNV
    ELSE Val(CalculateTotalAssets(AssetsOf(assets.d), exchange_rate, up.rate).total)

\* calculate_global_position(assets, realized_income, potential_income,
\* exchange_rate) as get_dashboard_data calls it; it returns 0 when its body
\* raises
GlobalPositionAt(assets, realized, potential, exchange_rate, date, up) ==
    IF assets.kind # "map" THEN Val(0)
    ELSE IF realized.tag = "nan" \/ potential.tag = "nan" \/ AssetsNaN(assets)
    THEN NaNV
    ELSE Val(CalculateGlobalPosition(AssetsOf(assets.d), realized, potential,
                                     exchange_rate, date, up))

\* What a dashboard handler did: the response and the three files
Shown(status, body, cfile, afile, cachefile, rate) ==
    [status |-> status, success |-> status = 200, body |-> body,
     configFile |-> cfile, assetsFile |-> afile, cache |-> cachefile,
     rate |-> rate]

\* The provider was not called
NoRate == Outcome(NoneV, FALSE, MissingFile, FALSE, FALSE, FALSE)

\* get_dashboard_data (GET /api/dashboard-data)
GetDashboardData(cfile, afile, cachefile, io, resp, wc, t, date, up) ==
    LET l == LoadConfig(cfile, io.rd_config, io.w_config, t)
        a == LoadAssets(afile, io.rd_assets, io.w_assets, t)
        x == GetExchangeRate(cachefile, t, resp, wc)
        exchange_rate == x.ret
        config == l.value
        assets == a.value
        incomes == IncomeFunctions(DictGet(config.d, "monthly_salary", Val(0)),
                                   DictGet(config.d, "daily_goal_percentage", Val(0)),
                                   date, 0, up.realized)
        realized_income == incomes.calculate_realized_income
        potential_income == incomes.calculate_potential_income
        total_assets == TotalAssetsAt(assets, exchange_rate, up)
    IN  IF l.raised THEN Shown(500, EmptyDict, l.file, afile, cachefile, NoRate)
        ELSE IF a.raised THEN Shown(500, EmptyDict, l.file, a.file, cachefile, NoRate)
        ELSE IF config.kind # "map" \/ realized_income = ExcV \/ potential_income = ExcV
        THEN Shown(500, EmptyDict, l.file, a.file, x.file, x)
        ELSE IF total_assets = ExcV
        THEN Shown(500, EmptyDict, l.file, a.file, x.file, x)
        ELSE Shown(200,
                   [config |-> config.d, assets |-> assets.d,
                    realized_income |-> realized_income,
                    potential_income |-> potential_income,
                    global_position |->
                        GlobalPositionAt(assets, realized_income, potential_income,
                                         exchange_rate, date, up),
                    monthly_progress |->
                        CalculateMonthlyProgress(date, 0, up.realized).progress_percentage,
                    total_assets |-> total_assets,
                    exchange_rate |-> exchange_rate],
                   l.file, a.file, x.file, x)

\* The page rendered when anything raised
FirstTime ==
    [config |-> EmptyDict, assets |-> EmptyDict, realized_income |-> Val(0),
     potential_income |-> Val(0), global_position |-> Val(0), first_time |-> TRUE]

\* dashboard (GET /)
Dashboard(cfile, afile, cachefile, io, t, date, up) ==
    LET l == LoadConfig(cfile, io.rd_config, io.w_config, t)
        a == LoadAssets(afile, io.rd_assets, io.w_assets, t)
        config == l.value
        assets == a.value
        incomes == IncomeFunctions(DictGet(config.d, "monthly_salary", Val(0)),
                                   DictGet(config.d, "daily_goal_percentage", Val(0)),
                                   date, 0, up.realized)
        realized_income == incomes.calculate_realized_income
        potential_income == incomes.calculate_potential_income
    IN  IF l.raised THEN Shown(200, FirstTime, l.file, afile, cachefile, NoRate)
        ELSE IF a.raised THEN Shown(200, FirstTime, l.file, a.file, cachefile, NoRate)
        ELSE IF config.kind # "map" \/ realized_income = ExcV \/ potential_income = ExcV
        THEN Shown(200, FirstTime, l.file, a.file, cachefile, NoRate)
        ELSE Shown(200,
                   [config |-> config.d, assets |-> assets.d,
                    realized_income |-> realized_income,
                    potential_income |-> potential_income,
                    global_position |->
                        GlobalPositionOf(assets, realized_income, potential_income,
                                         date, up),
                    first_time |-> FALSE],
                   l.file, a.file, cachefile, NoRate)

-----------------------------------------------------------------------------
(* The inputs the model draws from *)

Deltas == {1, CacheDuration - 1}

CachedRates == {0, 8800}

InitFiles ==
    {MissingFile, TruncatedFile, File("notmap", 0, 0, ""),
     File("nots", 8800, 0, "api"), File("badts", 8800, 0, "api")}
    \cup {File("norate", 0, ts, "api") : ts \in {T0 - CacheDuration, T0}}
    \cup {File("ok", r, ts, "api") :
             r \in CachedRates,
             ts \in {T0 - CacheDuration, T0 - CacheDuration + 1, T0 + CacheDuration}}
    \cup {File("ok", 8800, T0, "")}

Raws == {85423, 0, -50000, 4}

Responses ==
    {Resp(k, 0, FALSE) : k \in {"error", "norates", "noeur", "nonnum"}}
    \cup {Resp("num", raw, FALSE) : raw \in Raws}
    \cup {Resp("num", 85425, up) : up \in BOOLEAN}

NoResp == Resp("error", 0, FALSE)

Writes == {"ok", "denied", "truncated"}

Usd(tag, v) == [tag |-> tag, v |-> v]

UsdAmounts == {Usd("num", 10050), Usd("num", -100), Usd("str", 0)}

NoUsd == Usd("str", 0)

-----------------------------------------------------------------------------
(* The provider's operations as actions *)

NoPromise == [some |-> FALSE, rate |-> 0, at |-> 0]

ValidEntry(f, t) == f.kind = "ok" /\ t - f.ts < CacheDuration

Idle ==
    [op |-> "idle", pre |-> MissingFile, at |-> 0, resp |-> NoResp, w |-> "ok",
     usd |-> NoUsd, rmOk |-> TRUE, promise |-> NoPromise,
     out |-> Outcome(NoneV, FALSE, MissingFile, FALSE, FALSE, FALSE),
     info |-> NoInfo]

Ran(op, resp, w, usd, rmOk, out, info) ==
    [op |-> op, pre |-> cache, at |-> now, resp |-> resp, w |-> w, usd |-> usd,
     rmOk |-> rmOk, promise |-> promise, out |-> out, info |-> info]

Reads(ret) == Outcome(ret, FALSE, cache, FALSE, FALSE, FALSE)

\* The promise is made when get_exchange_rate, finding no valid entry, gets
\* a number from the network and the storage takes the write; any later
\* call of cache_rate ends it.
Promised(op, resp, w, out) ==
    IF op = "get_exchange_rate" /\ ~ValidEntry(cache, now)
       /\ resp.kind = "num" /\ w = "ok"
    THEN [some |-> TRUE, rate |-> RoundDiv(resp.raw, 10, resp.up), at |-> now]
    ELSE IF out.wrote THEN NoPromise
    ELSE promise

Provider(op, resp, w, usd, rmOk, out, info) ==
    /\ cache' = out.file
    /\ last' = Ran(op, resp, w, usd, rmOk, out, info)
    /\ promise' = Promised(op, resp, w, out)
    /\ UNCHANGED <<now, ticks, today, calc, configFile, assetsFile, api, threads, stored>>

GetExchangeRateOp ==
    \E resp \in Responses, w \in Writes :
        Provider("get_exchange_rate", resp, w, NoUsd, TRUE,
                 GetExchangeRate(cache, now, resp, w), NoInfo)

GetCachedRateOp ==
    Provider("get_cached_rate", NoResp, "ok", NoUsd, TRUE,
             Reads(GetCachedRate(cache, now)), NoInfo)

GetRateInfoOp ==
    Provider("get_rate_info", NoResp, "ok", NoUsd, TRUE,
             Outcome(NoneV, FALSE, GetRateInfo(cache, now).file, FALSE, FALSE, FALSE),
             GetRateInfo(cache, now).info)

\* A rejected amount returns before any rate is looked up: the network and
\* the storage have no part in the call.
ConvertUsdToEurOp ==
    \E usd \in UsdAmounts :
        IF usd.tag # "num" \/ usd.v < 0
        THEN Provider("convert_usd_to_eur", NoResp, "ok", usd, TRUE,
                      ConvertUsdToEur(usd, cache, now, NoResp, "ok", FALSE), NoInfo)
        ELSE \E resp \in Responses, w \in Writes, up \in BOOLEAN :
                Provider("convert_usd_to_eur", resp, w, usd, TRUE,
                         ConvertUsdToEur(usd, cache, now, resp, w, up), NoInfo)

RefreshExchangeRateOp ==
    \E rmOk \in BOOLEAN, resp \in Responses, w \in Writes :
        Provider("refresh_exchange_rate", resp, w, NoUsd, rmOk,
                 RefreshExchangeRate(cache, now, rmOk, resp, w), NoInfo)

Tick ==
    /\ ticks < MaxTicks
    /\ \E d \in Deltas : now' = now + d
    /\ ticks' = ticks + 1
    /\ last' = Idle
    /\ UNCHANGED <<cache, promise, today, calc, configFile, assetsFile, api, threads, stored>>

-----------------------------------------------------------------------------
(* The calculator's operations as actions *)

MonthLengths == 28..31

Dates == UNION {{[day |-> d, dim |-> m] : d \in 1..m} : m \in MonthLengths}

Salaries == {-100, 0, 1, 1400, 100001, 300000}

Goals == {-1, 0, 1, 33, 75, 100}

Computed(op, salary, goal, realized, potential) ==
    [op |-> op, salary |-> salary, goal |-> goal, date |-> today,
     realized |-> realized, potential |-> potential]

IdleCalc ==
    [op |-> "idle", salary |-> 0, goal |-> 0, date |-> [day |-> 1, dim |-> 31],
     realized |-> 0, potential |-> 0]

\* The two income figures of the raw-inputs form, taken on the same date
IncomesOp ==
    \E salary \in Salaries, goal \in Goals, up1 \in BOOLEAN, up2 \in BOOLEAN :
        /\ calc' = Computed("incomes", salary, goal,
                      CalculateRealizedMonthlyIncome(salary, goal, today, up1),
                      CalculatePotentialDailyIncome(salary, goal, today, up2))
        /\ UNCHANGED <<cache, now, ticks, last, promise, today, configFile, assetsFile, api, threads, stored>>

AssetSnapshots ==
    {Assets(Val(500000), Val(20000), Val(10000), Val(1000000)),
     Assets(Val(0), NoneV, Val(10001), NoneV),
     Assets(NoneV, NoneV, NoneV, NoneV)}

SuppliedRates == {NoneV, Val(0), Val(8500), Val(8542)}

TotalAssetsOp ==
    \E assets \in AssetSnapshots, rate \in SuppliedRates, up \in BOOLEAN :
        /\ calc' = [op |-> "total_assets", assets |-> assets, rate |-> rate,
                    out |-> CalculateTotalAssets(assets, rate, up)]
        /\ UNCHANGED <<cache, now, ticks, last, promise, today, configFile, assetsFile, api, threads, stored>>

RealizedIncomes == {NoneV, Val(0), Val(5000)}
PotentialIncomes == {NoneV, Val(0), Val(4500), Val(7258), Val(10000), Val(10001), Val(50000)}
\* The tie sides of the three roundings; the conversion of the snapshots'
\* USD cash at the rates drawn here has no tie
Roundings == {[rate |-> up1, realized |-> up1, potential |-> up2] :
                 up1 \in BOOLEAN, up2 \in BOOLEAN}

GlobalPositionOp ==
    \E assets \in {a \in AssetSnapshots : a.bank_balance # Val(0)},
       rate \in {NoneV, Val(8500)},
       realized \in RealizedIncomes, potential \in PotentialIncomes, up \in Roundings :
        /\ calc' = [op |-> "global_position", assets |-> assets, rate |-> rate,
                    realized |-> realized, potential |-> potential, date |-> today,
                    total |-> CalculateTotalAssets(assets, rate, up.rate).total,
                    out |-> CalculateGlobalPosition(assets, realized, potential,
                                                    rate, today, up)]
        /\ UNCHANGED <<cache, now, ticks, last, promise, today, configFile, assetsFile, api, threads, stored>>

\* Midnight: the next day of the month, or the first day of a month of any length
NextDay ==
    /\ \/ today.day < today.dim /\ today' = [today EXCEPT !.day = today.day + 1]
       \/ today.day >= today.dim
            /\ \E m \in MonthLengths : today' = [day |-> 1, dim |-> m]
    /\ calc' = IdleCalc
    /\ UNCHANGED <<cache, now, ticks, last, promise, configFile, assetsFile, api, threads, stored>>

IdleApi == [op |-> "idle"]

\* No fetched rate has been stored
NoStore == [some |-> FALSE, rate |-> 0, at |-> 0]

\* No call is in flight on another thread
NoThreads == [op |-> "none"]

\* Nothing stored yet and no request served
InitStore ==
    /\ configFile = NoFile
    /\ assetsFile = NoFile
    /\ api = IdleApi
    /\ threads = NoThreads
    /\ stored = NoStore

InitCalc ==
    /\ InitStore
    /\ cache = MissingFile
    /\ now = T0
    /\ ticks = 0
    /\ last = Idle
    /\ promise = NoPromise
    /\ today \in Dates
    /\ calc = IdleCalc

NextCalc ==
    \/ IncomesOp
    \/ TotalAssetsOp
    \/ GlobalPositionOp
    \/ NextDay

SpecCalc == InitCalc /\ [][NextCalc]_vars

-----------------------------------------------------------------------------
(* calculate_global_position while the clock moves *)

\* The dates the day after date can be
Tomorrows(date) ==
    IF date.day < date.dim THEN {[date EXCEPT !.day = date.day + 1]}
    ELSE {[day |-> 1, dim |-> m] : m \in MonthLengths}

\* The call starts today; its second reading of the clock falls on the same
\* day or, midnight having passed in between, on the next
GlobalPositionDuringOp ==
    \E assets \in {a \in AssetSnapshots : a.bank_balance # Val(0)},
       realized \in RealizedIncomes, potential \in PotentialIncomes,
       up \in Roundings, later \in {today} \cup Tomorrows(today) :
        /\ calc' = [op |-> "global_position_during", assets |-> assets,
                    rate |-> NoneV, realized |-> realized, potential |-> potential,
                    date |-> today, later |-> later,
                    total |-> CalculateTotalAssets(assets, NoneV, up.rate).total,
                    out |-> GlobalPositionDuring(assets, realized, potential, NoneV,
                                                today, later, up)]
        /\ today' = later
        /\ UNCHANGED <<cache, now, ticks, last, promise, configFile, assetsFile, api,
                       threads, stored>>

NextMidnight ==
    \/ GlobalPositionDuringOp
    \/ NextDay

SpecMidnight == InitCalc /\ [][NextMidnight]_vars

-----------------------------------------------------------------------------
(* The calculator's functions on arbitrary arguments and a failing clock *)

SalaryArgs == {NoneV, StrV(3), StrV(0), Val(-100), Val(0), Val(300000)}
GoalArgs == {NoneV, StrV(1), Val(-1), Val(0), Val(75)}

\* How many reads of datetime.now() raise: none, the next one, every one
ClockFailures == {0, 1, 2}

IncomeFunctionsOp ==
    \E salary \in SalaryArgs, goal \in GoalArgs, fails \in ClockFailures,
       up \in BOOLEAN :
        /\ calc' = [op |-> "income_functions", salary |-> salary, goal |-> goal,
                    fails |-> fails, date |-> today,
                    out |-> IncomeFunctions(salary, goal, today, fails, up)]
        /\ UNCHANGED <<cache, now, ticks, last, promise, today, configFile, assetsFile, api, threads, stored>>

MonthlyProgressOp ==
    \E fails \in ClockFailures, up \in BOOLEAN :
        /\ calc' = [op |-> "monthly_progress", fails |-> fails, date |-> today,
                    out |-> CalculateMonthlyProgress(today, fails, up)]
        /\ UNCHANGED <<cache, now, ticks, last, promise, today, configFile, assetsFile, api, threads, stored>>

PercentageArgs ==
    {Val(-1), Val(0), Val(5000), Val(10000), Val(10001), StrV(2), NoneV, ListV(1)}

ValidatePercentageOp ==
    \E value \in PercentageArgs :
        /\ calc' = [op |-> "validate_percentage", value |-> value,
                    out |-> ValidatePercentage(value)]
        /\ UNCHANGED <<cache, now, ticks, last, promise, today, configFile, assetsFile, api, threads, stored>>

NextArgs ==
    \/ IncomeFunctionsOp
    \/ MonthlyProgressOp
    \/ ValidatePercentageOp
    \/ NextDay

SpecArgs == InitCalc /\ [][NextArgs]_vars

-----------------------------------------------------------------------------
(* The loaders of data_manager on any stored file *)

ConfigFiles ==
    {NoFile, CorruptFile, ListFile, MapFile(EmptyDict),
     MapFile([monthly_salary |-> Val(300000)]),
     MapFile([monthly_salary |-> Val(300000), daily_goal_percentage |-> Val(75)]),
     MapFile(DefaultConfig(T0 - 1))}

AssetFiles ==
    {NoFile, CorruptFile, ListFile, MapFile(EmptyDict),
     MapFile([bank_balance |-> Val(500000), cash_usd |-> Val(10000)]),
     MapFile([bank_balance |-> Val(500000), cash_eur |-> Val(20000),
              cash_usd |-> Val(10000), investments |-> Val(1000000)])}

ReadOutcomes == {"ok", "denied"}

LoadConfigOp ==
    \E rd \in ReadOutcomes, w \in Writes :
        LET r == LoadConfig(configFile, rd, w, now)
        IN  /\ configFile' = r.file
            /\ api' = [op |-> "load_config", pre |-> configFile, rd |-> rd,
                       w |-> w, out |-> r]
            /\ UNCHANGED <<cache, now, ticks, last, promise, today, calc, assetsFile, threads, stored>>

LoadAssetsOp ==
    \E rd \in ReadOutcomes, w \in Writes :
        LET r == LoadAssets(assetsFile, rd, w, now)
        IN  /\ assetsFile' = r.file
            /\ api' = [op |-> "load_assets", pre |-> assetsFile, rd |-> rd,
                       w |-> w, out |-> r]
            /\ UNCHANGED <<cache, now, ticks, last, promise, today, calc, configFile, threads, stored>>

InitLoad ==
    /\ cache = MissingFile
    /\ now = T0
    /\ ticks = 0
    /\ last = Idle
    /\ promise = NoPromise
    /\ today = [day |-> 1, dim |-> 31]
    /\ calc = IdleCalc
    /\ configFile \in ConfigFiles
    /\ assetsFile \in AssetFiles
    /\ api = IdleApi
    /\ threads = NoThreads
    /\ stored = NoStore

NextLoad ==
    \/ LoadConfigOp
    \/ LoadAssetsOp

SpecLoad == InitLoad /\ [][NextLoad]_vars

-----------------------------------------------------------------------------
(* The update requests of app.py, starting with nothing stored *)

NotJson == Request("notjson", EmptyDict)

ConfigRequests ==
    {NotJson, Request("null", EmptyDict), Request("map", EmptyDict),
     Request("map", [monthly_salary |-> Val(100000)])}
    \cup {Request("map", [monthly_salary |-> salary, daily_goal_percentage |-> goal]) :
             salary \in {Val(-1), NumStr(100000), NaNStr, StrV(3)},
             goal \in {Val(-1), Val(50), Val(100), Val(101), NaNStr, NullV}}

GoalRequests ==
    {NotJson, Request("map", EmptyDict)}
    \cup {Request("map", [goal_percentage |-> goal]) :
             goal \in {Val(-1), Val(0), Val(33), Val(101), NaNStr, StrV(1),
                       ListV(1)}}

AssetRequests ==
    {NotJson,
     Request("map", [bank_balance |-> Val(500000), cash_eur |-> Val(20000)]),
     Request("map", [bank_balance |-> Val(500000), cash_eur |-> Val(20000),
                     cash_usd |-> Val(10000), investments |-> Val(1000000)]),
     Request("map", [bank_balance |-> Val(-100), cash_eur |-> NumStr(0),
                     cash_usd |-> Val(0), investments |-> NaNStr]),
     Request("map", [bank_balance |-> Val(500000), cash_eur |-> StrV(3),
                     cash_usd |-> Val(10000), investments |-> Val(1000000)])}

\* The outcomes of the storage operations of one request: w is the write of
\* the handler's own save; the others belong to load_config and load_assets
Io(rd_config, w_config, w, rd_assets, w_assets) ==
    [rd_config |-> rd_config, w_config |-> w_config, w |-> w,
     rd_assets |-> rd_assets, w_assets |-> w_assets]

\* The outcomes a loader can meet on a file: an existing file may be
\* unreadable, the defaults are written for a missing or corrupted one
ReadsOf(file) == IF file.kind = "missing" THEN {"ok"} ELSE ReadOutcomes
DefaultWritesOf(file) ==
    IF file.kind \in {"missing", "corrupt"} THEN Writes ELSE {"ok"}

\* All storage operations succeed
IoOk == Io("ok", "ok", "ok", "ok", "ok")

\* The outcomes drawn for a request: none for a request the handler rejects
\* before it touches the storage
IosOf(rejected, ios) == IF rejected THEN {IoOk} ELSE ios

\* The tie sides of the roundings of one request
RoundingsOf(rejected) ==
    {r \in Roundings : r.realized = r.potential /\ (rejected => r.rate)}

UpdateAssetsOp ==
    \E req \in AssetRequests :
        \E io \in IosOf(UpdateAssets(req, configFile, assetsFile, IoOk, now).status = 400,
                        {Io("ok", "ok", w, "ok", "ok") : w \in Writes}) :
            LET r == UpdateAssets(req, configFile, assetsFile, io, now)
            IN  /\ configFile' = r.configFile
                /\ assetsFile' = r.assetsFile
                /\ api' = [op |-> "update_assets", req |-> req, io |-> io,
                           pre |-> [configFile |-> configFile,
                                    assetsFile |-> assetsFile],
                           out |-> r]
                /\ UNCHANGED <<cache, now, ticks, last, promise, today, calc, threads, stored>>

UpdateConfigOp ==
    \E req \in ConfigRequests :
        \E io \in IosOf(UpdateConfig(req, configFile, assetsFile, IoOk, now).status = 400,
                        {Io("ok", "ok", w, "ok", "ok") : w \in Writes}) :
            LET r == UpdateConfig(req, configFile, assetsFile, io, now)
            IN  /\ configFile' = r.configFile
                /\ assetsFile' = r.assetsFile
                /\ api' = [op |-> "update_config", req |-> req, io |-> io,
                           pre |-> [configFile |-> configFile,
                                    assetsFile |-> assetsFile],
                           out |-> r]
                /\ UNCHANGED <<cache, now, ticks, last, promise, today, calc, threads, stored>>

UpdateDailyGoalOp ==
    \E req \in GoalRequests :
        LET rejected ==
                UpdateDailyGoal(req, configFile, assetsFile, IoOk, now, today,
                                CHOOSE up \in Roundings : TRUE).status = 400
        IN  \E io \in IosOf(rejected,
                            {Io(rd_config, w_config, w, rd_assets, w_assets) :
                                rd_config \in ReadsOf(configFile),
                                w_config \in DefaultWritesOf(configFile),
                                w \in Writes,
                                rd_assets \in ReadsOf(assetsFile),
                                w_assets \in DefaultWritesOf(assetsFile)}),
                   up \in RoundingsOf(rejected) :
                LET r == UpdateDailyGoal(req, configFile, assetsFile, io, now,
                                         today, up)
                IN  /\ configFile' = r.configFile
                    /\ assetsFile' = r.assetsFile
                    /\ api' = [op |-> "update_daily_goal", req |-> req, io |-> io,
                               pre |-> [configFile |-> configFile,
                                        assetsFile |-> assetsFile],
                               out |-> r]
                    /\ UNCHANGED <<cache, now, ticks, last, promise, today, calc, threads, stored>>

InitStoreSpec ==
    /\ InitStore
    /\ cache = MissingFile
    /\ now = T0
    /\ ticks = 0
    /\ last = Idle
    /\ promise = NoPromise
    /\ today = [day |-> 1, dim |-> 31]
    /\ calc = IdleCalc

NextStore ==
    \/ UpdateAssetsOp
    \/ UpdateConfigOp
    \/ UpdateDailyGoalOp

SpecStore == InitStoreSpec /\ [][NextStore]_vars

-----------------------------------------------------------------------------
(* The dashboard of app.py after the update requests *)

\* The storage outcomes the two loaders can meet
LoaderIos ==
    {Io(rd_config, w_config, "ok", rd_assets, w_assets) :
        rd_config \in ReadsOf(configFile),
        w_config \in DefaultWritesOf(configFile),
        rd_assets \in ReadsOf(assetsFile),
        w_assets \in DefaultWritesOf(assetsFile)}

\* The network answers a dashboard request can meet: none is drawn when the
\* cache serves the rate
DashboardResponses ==
    IF Truthy(GetCachedRate(cache, now)) THEN {NoResp}
    ELSE {r \in Responses : r.kind = "error" \/ r.raw = 85423}

\* The update request served just before, when there is one and it succeeded
Before ==
    IF api.op \in {"update_assets", "update_config"} /\ api.out.success
    THEN [op |-> api.op, req |-> api.req]
    ELSE [op |-> "none", req |-> NotJson]

GetDashboardDataOp ==
    \E io \in LoaderIos, resp \in DashboardResponses, up \in RoundingsOf(FALSE) :
        \E wc \in IF Truthy(FetchRateFromApi(resp)) THEN Writes ELSE {"ok"} :
            LET r == GetDashboardData(configFile, assetsFile, cache, io, resp, wc,
                                      now, today, up)
            IN  /\ configFile' = r.configFile
                /\ assetsFile' = r.assetsFile
                /\ cache' = r.cache
                /\ api' = [op |-> "dashboard_data", io |-> io, after |-> Before,
                           out |-> r]
                /\ UNCHANGED <<now, ticks, last, promise, today, calc, threads, stored>>

DashboardOp ==
    \E io \in LoaderIos, up \in RoundingsOf(FALSE) :
        LET r == Dashboard(configFile, assetsFile, cache, io, now, today, up)
        IN  /\ configFile' = r.configFile
            /\ assetsFile' = r.assetsFile
            /\ api' = [op |-> "dashboard", io |-> io, after |-> Before, out |-> r]
            /\ UNCHANGED <<cache, now, ticks, last, promise, today, calc, threads, stored>>

NextDash ==
    \/ UpdateAssetsOp
    \/ UpdateConfigOp
    \/ GetDashboardDataOp
    \/ DashboardOp

SpecDash == InitStoreSpec /\ [][NextDash]_vars

-----------------------------------------------------------------------------
(* The figures of the dashboard on different days of the month *)

\* A day in the middle of a month and the last day of one
FigureDays == {[day |-> 15, dim |-> 30], [day |-> 31, dim |-> 31]}

\* The configuration an accepted /api/update-config has stored
StoredConfig ==
    UpdateConfig(Request("map", [monthly_salary |-> Val(30000),
                                 daily_goal_percentage |-> Val(50)]),
                 NoFile, NoFile, IoOk, T0).configFile

InitFigures ==
    /\ configFile = StoredConfig
    /\ assetsFile = NoFile
    /\ api = IdleApi
    /\ threads = NoThreads
    /\ stored = NoStore
    /\ cache = MissingFile
    /\ now = T0
    /\ ticks = 0
    /\ last = Idle
    /\ promise = NoPromise
    /\ today \in FigureDays
    /\ calc = IdleCalc

NextFigures ==
    \/ DashboardOp
    \/ GetDashboardDataOp
    \/ UpdateDailyGoalOp

SpecFigures == InitFigures /\ [][NextFigures]_vars

-----------------------------------------------------------------------------
(* cache_rate on several threads: utils/currency.py takes no lock *)

\* The text json.dump writes for one rate is as long as its timestamp:
\* datetime.isoformat() leaves the fraction out when the microsecond is 0.
\* The two lengths, in characters, of the entry of a four-character rate.
ShortEntry == 81
LongEntry == 88

EntryLengths == {ShortEntry, LongEntry}

Writers == 1..2

\* What the rate endpoint answers while the threads run, and the rate
\* every thread was handed
SameResp == Resp("num", 85423, FALSE)
SameRate == FetchRateFromApi(SameResp).v

\* A thread inside cache_rate: "start" before the open, "opened" between
\* open(CACHE_FILE, 'w') and the end of the with block, "done" after it.
\* cache_data is built before the open; the text of json.dump stays in the
\* file object's buffer and reaches the file in one write when the with
\* block closes it.
Waiting == [pc |-> "start", rate |-> SameRate, ts |-> 0, len |-> 0]

\* open(CACHE_FILE, 'w'): the file exists and is empty, whatever it held
OpenTruncating(f) == [file |-> TruncatedFile, size |-> 0]

\* The close writes the len characters of the entry at offset 0 of this
\* thread's own file object.  What the file held beyond them stays.
Flush(size, e) ==
    IF size <= e.len
    THEN [file |-> File("ok", e.rate, e.ts, "api"), size |-> e.len]
    ELSE [file |-> File("badjson", 0, 0, ""), size |-> size]

CacheRateOpen(i) ==
    /\ threads.w[i].pc = "start"
    /\ \E len \in EntryLengths :
        threads' = [threads EXCEPT
                       !.size = OpenTruncating(cache).size,
                       !.w[i] = [pc |-> "opened", rate |-> SameRate,
                                 ts |-> now, len |-> len]]
    /\ cache' = OpenTruncating(cache).file
    /\ last' = [op |-> "cache_rate_open", pre |-> cache, at |-> now, thread |-> i]
    /\ UNCHANGED <<now, ticks, promise, today, calc, configFile, assetsFile, api, stored>>

CacheRateClose(i) ==
    /\ threads.w[i].pc = "opened"
    /\ LET r == Flush(threads.size, threads.w[i])
       IN  /\ cache' = r.file
           /\ threads' = [threads EXCEPT !.size = r.size, !.w[i].pc = "done"]
    /\ last' = [op |-> "cache_rate_close", pre |-> cache, at |-> now, thread |-> i,
                found |-> threads.size]
    /\ UNCHANGED <<now, ticks, promise, today, calc, configFile, assetsFile, api, stored>>

\* get_exchange_rate on the main thread; its own file operations follow one
\* another, the other threads' may come before and after
FetchOp ==
    \E resp \in {NoResp, SameResp}, len \in EntryLengths :
        LET out == GetExchangeRate(cache, now, resp, "ok")
        IN  /\ cache' = out.file
            /\ last' = Ran("get_exchange_rate", resp, "ok", NoUsd, TRUE, out, NoInfo)
            /\ promise' = Promised("get_exchange_rate", resp, "ok", out)
            /\ threads' = [threads EXCEPT !.size = IF out.wrote THEN len ELSE @]
            /\ UNCHANGED <<now, ticks, today, calc, configFile, assetsFile, api, stored>>

InitRace ==
    /\ cache = MissingFile
    /\ now = T0
    /\ ticks = 0
    /\ last = Idle
    /\ promise = NoPromise
    /\ today = [day |-> 1, dim |-> 31]
    /\ calc = IdleCalc
    /\ configFile = NoFile
    /\ assetsFile = NoFile
    /\ api = IdleApi
    /\ threads = [op |-> "cache_rate", size |-> 0, w |-> [i \in Writers |-> Waiting]]
    /\ stored = NoStore

NextRace ==
    \/ \E i \in Writers : CacheRateOpen(i)
    \/ \E i \in Writers : CacheRateClose(i)
    \/ GetCachedRateOp
    \/ FetchOp
    \/ Tick

SpecRace == InitRace /\ [][NextRace]_vars

-----------------------------------------------------------------------------
(* /api/daily-goal while /api/update-config is served on another thread *)

\* The requests of the two handlers, all of them valid
GoalUpdates == {Request("map", [goal_percentage |-> goal]) : goal \in {Val(0), Val(33)}}

SalaryUpdates ==
    {Request("map", [monthly_salary |-> salary, daily_goal_percentage |-> Val(50)]) :
        salary \in {Val(100000), Val(200000)}}

\* No /api/update-config has completed
NoSalary == [some |-> FALSE, salary |-> Val(0)]

\* The thread serving /api/daily-goal: "start" before load_config, "loaded"
\* between load_config and save_config, with the mapping load_config
\* returned, "done" after the response
Arrived(req) == [pc |-> "start", req |-> req, config |-> EmptyDict]

\* update_config, start to end, on the other thread
UpdateConfigRun ==
    \E req \in SalaryUpdates :
        LET r == UpdateConfig(req, configFile, assetsFile, IoOk, now)
        IN  /\ configFile' = r.configFile
            /\ assetsFile' = r.assetsFile
            /\ api' = [op |-> "update_config", req |-> req, io |-> IoOk,
                       pre |-> [configFile |-> configFile, assetsFile |-> assetsFile],
                       out |-> r]
            /\ threads' = [threads EXCEPT
                              !.written = [some |-> TRUE,
                                           salary |-> Float(req.d["monthly_salary"])]]
            /\ UNCHANGED <<cache, now, ticks, last, promise, today, calc, stored>>

DailyGoalArrives ==
    /\ threads.dg.pc \in {"none", "done"}
    /\ \E req \in GoalUpdates : threads' = [threads EXCEPT !.dg = Arrived(req)]
    /\ UNCHANGED <<cache, now, ticks, last, promise, today, calc, configFile,
                   assetsFile, api, stored>>

\* update_daily_goal up to and including config = load_config()
DailyGoalLoad ==
    /\ threads.dg.pc = "start"
    /\ LET l == LoadConfig(configFile, "ok", "ok", now)
       IN  /\ configFile' = l.file
           /\ threads' = [threads EXCEPT !.dg.pc = "loaded", !.dg.config = l.value.d]
    /\ UNCHANGED <<cache, now, ticks, last, promise, today, calc, assetsFile, api, stored>>

\* The rest of update_daily_goal: it works on the mapping load_config
\* returned, whatever the file holds by now
DailyGoalSave ==
    /\ threads.dg.pc = "loaded"
    /\ \E up \in RoundingsOf(FALSE) :
        LET r == UpdateDailyGoal(threads.dg.req, MapFile(threads.dg.config),
                                 assetsFile, IoOk, now, today, up)
        IN  /\ configFile' = r.configFile
            /\ assetsFile' = r.assetsFile
            /\ api' = [op |-> "update_daily_goal", req |-> threads.dg.req, io |-> IoOk,
                       pre |-> [configFile |-> configFile, assetsFile |-> assetsFile],
                       out |-> r]
    /\ threads' = [threads EXCEPT !.dg.pc = "done"]
    /\ UNCHANGED <<cache, now, ticks, last, promise, today, calc, stored>>

InitGoalRace ==
    /\ configFile = NoFile
    /\ assetsFile = NoFile
    /\ api = IdleApi
    /\ threads = [op |-> "daily_goal", dg |-> [Arrived(NotJson) EXCEPT !.pc = "none"],
                  written |-> NoSalary]
    /\ stored = NoStore
    /\ cache = MissingFile
    /\ now = T0
    /\ ticks = 0
    /\ last = Idle
    /\ promise = NoPromise
    /\ today = [day |-> 1, dim |-> 31]
    /\ calc = IdleCalc

NextGoalRace ==
    \/ UpdateConfigRun
    \/ DailyGoalArrives
    \/ DailyGoalLoad
    \/ DailyGoalSave
    \/ Tick

SpecGoalRace == InitGoalRace /\ [][NextGoalRace]_vars

-----------------------------------------------------------------------------
(* The provider from an empty cache, with the history of what it stored *)

\* The entry in the cache after a call: the one the call stored, when it
\* fetched a rate and the storage took the write
Stores(resp, w, out) ==
    IF out.wrote /\ w = "ok"
    THEN [some |-> TRUE, rate |-> FetchRateFromApi(resp).v, at |-> now]
    ELSE stored

Keeping(op, resp, w, rmOk, out) ==
    /\ cache' = out.file
    /\ last' = Ran(op, resp, w, NoUsd, rmOk, out, NoInfo)
    /\ promise' = Promised(op, resp, w, out)
    /\ stored' = Stores(resp, w, out)
    /\ UNCHANGED <<now, ticks, today, calc, configFile, assetsFile, api, threads>>

GetExchangeRateKeeping ==
    \E resp \in Responses, w \in Writes :
        Keeping("get_exchange_rate", resp, w, TRUE,
                GetExchangeRate(cache, now, resp, w))

RefreshExchangeRateKeeping ==
    \E rmOk \in BOOLEAN, resp \in Responses, w \in Writes :
        Keeping("refresh_exchange_rate", resp, w, rmOk,
                RefreshExchangeRate(cache, now, rmOk, resp, w))

NextStale ==
    \/ GetExchangeRateKeeping
    \/ RefreshExchangeRateKeeping
    \/ Tick

SpecStale == InitStoreSpec /\ [][NextStale]_vars

-----------------------------------------------------------------------------
(* The provider's specification *)

Init ==
    /\ InitStore
    /\ cache \in InitFiles
    /\ now = T0
    /\ ticks = 0
    /\ last = Idle
    /\ promise = NoPromise
    /\ today = [day |-> 1, dim |-> 31]
    /\ calc = IdleCalc

Next ==
    \/ GetExchangeRateOp
    \/ GetCachedRateOp
    \/ GetRateInfoOp
    \/ ConvertUsdToEurOp
    \/ RefreshExchangeRateOp
    \/ Tick

Spec == Init /\ [][Next]_vars

-----------------------------------------------------------------------------
(* The exchange-rate provider: properties *)

Called(op) == last.op = op

\* The entry the call found was a well-formed one younger than an hour
ValidPre == ValidEntry(last.pre, last.at)

Corrupted(f) == f.kind \in {"badjson", "notmap", "nots", "badts", "norate"}

FetchFails(resp) == resp.kind \in {"error", "norates", "noeur", "nonnum"}

\* The rate the network sent, at the four decimals the provider keeps
SentRate(resp) == RoundDiv(resp.raw, 10, resp.up)

\* C1: a get_exchange_rate call that finds an entry younger than one hour
\* returns that entry's rate and makes no network fetch, whatever the rate
\* (zero included).
C1_ValidEntryIsServed ==
    (Called("get_exchange_rate") /\ ValidPre)
        => (last.out.ret = Val(last.pre.rate) /\ ~last.out.fetched)

\* C2: a get_exchange_rate call that finds no valid entry and gets the rate r
\* from the network stores {r, now, "api"} and returns r (the storage taking
\* the write), and every later get_exchange_rate call less than an hour after
\* that write, no other cache write in between, returns r without a fetch.
C2_FetchedRateIsStoredAndServed ==
    /\ (Called("get_exchange_rate") /\ ~ValidPre
            /\ last.resp.kind = "num" /\ last.w = "ok")
        => /\ last.out.ret = Val(SentRate(last.resp))
           /\ cache = File("ok", SentRate(last.resp), last.at, "api")
    /\ (Called("get_exchange_rate") /\ last.promise.some
            /\ last.at - last.promise.at < CacheDuration)
        => (last.out.ret = Val(last.promise.rate) /\ ~last.out.fetched)

\* C3: get_exchange_rate never raises, and with no valid entry (missing,
\* expired or corrupted file) and a failing fetch it returns the fallback
\* rate: an expired entry's rate is never returned.
C3_FallbackWhenNothingElse ==
    Called("get_exchange_rate")
        => /\ ~last.out.raised
           /\ last.out.ret.tag = "val"
           /\ (~ValidPre /\ FetchFails(last.resp))
                => last.out.ret = Val(FALLBACK_RATE)

C3_Witness ==
    /\ Called("get_exchange_rate")
    /\ last.pre.kind = "ok" /\ last.pre.rate # FALLBACK_RATE
    /\ last.at - last.pre.ts >= CacheDuration
    /\ FetchFails(last.resp)
    /\ last.out.ret = Val(FALLBACK_RATE)

\* C4: get_cached_rate returns the cached rate exactly when a well-formed
\* entry exists whose age is strictly below one hour: a hit one second short
\* of the hour, a miss at the hour, a hit for a timestamp in the future.
C4_HitIffYoungerThanAnHour ==
    Called("get_cached_rate")
        => /\ (last.out.ret.tag = "val") <=> ValidPre
           /\ ValidPre => last.out.ret = Val(last.pre.rate)
           /\ ~ValidPre => last.out.ret = NoneV
           /\ (last.pre.kind = "ok" /\ last.at - last.pre.ts = CacheDuration)
                => last.out.ret = NoneV
           /\ (last.pre.kind = "ok" /\ last.pre.ts > last.at)
                => last.out.ret = Val(last.pre.rate)

C4_Witness ==
    /\ Called("get_cached_rate")
    /\ last.pre.kind = "ok"
    /\ last.at - last.pre.ts = CacheDuration - 1
    /\ last.out.ret = Val(last.pre.rate)

\* C5: a corrupted cache file is the same as a missing one: get_cached_rate
\* misses without raising, and get_exchange_rate fetches or falls back, and
\* returns, as it does with no file.
C5_CorruptedIsMissing ==
    /\ (Called("get_cached_rate") /\ Corrupted(last.pre))
        => (last.out.ret = NoneV /\ ~last.out.raised)
    /\ (Called("get_exchange_rate") /\ Corrupted(last.pre))
        => LET o == GetExchangeRate(MissingFile, last.at, last.resp, last.w)
           IN  /\ last.out.ret = o.ret
               /\ last.out.fetched /\ o.fetched
               /\ last.out.wrote = o.wrote
               /\ ~last.out.raised

C5_Witness ==
    /\ Called("get_exchange_rate")
    /\ last.pre.kind = "norate"
    /\ last.at - last.pre.ts < CacheDuration
    /\ last.resp.kind = "num"
    /\ last.out.fetched
    /\ last.out.ret = Val(8542)

\* C6: a zero or negative rate from the network is taken as it is: with no
\* valid entry, a fetch that yields 0.0 (or -0.5) makes get_exchange_rate
\* return 0.0 (or -0.5), not the fallback.
C6_ZeroAndNegativeAccepted ==
    (Called("get_exchange_rate") /\ ~ValidPre
        /\ last.resp.kind = "num" /\ last.resp.raw \in {0, -50000})
        => last.out.ret = Val(SentRate(last.resp))

\* C7: cache_rate raises nothing when the write fails, and a
\* get_exchange_rate call whose fetch gave r and whose write failed returns r.
C7_WriteFailureSwallowed ==
    (Called("get_exchange_rate") /\ last.out.wrote /\ last.w # "ok")
        => /\ ~last.out.cacheExc
           /\ ~last.out.raised
           /\ last.out.ret = Val(SentRate(last.resp))

C7_Witness ==
    /\ Called("get_exchange_rate")
    /\ last.out.wrote /\ last.w = "denied"
    /\ cache = last.pre
    /\ last.out.ret = Val(8542)

\* C8: the entry changes only by being created or overwritten after a
\* successful fetch; get_cached_rate, get_rate_info, convert_usd_to_eur on a
\* cache hit, and get_exchange_rate or refresh_exchange_rate with a failing
\* fetch leave it as it is; nothing deletes it.
C8_EntryChangesOnlyAfterFetch ==
    ~Called("idle")
        => /\ cache # last.pre
                => (last.out.fetched /\ ~FetchFails(last.resp))
           /\ FileExists(last.pre) => FileExists(cache)
           /\ last.op \in {"get_cached_rate", "get_rate_info"}
                => cache = last.pre
           /\ (Called("convert_usd_to_eur") /\ ValidPre) => cache = last.pre
           /\ (last.op \in {"get_exchange_rate", "refresh_exchange_rate"}
                 /\ FetchFails(last.resp))
                => cache = last.pre

\* C9: get_rate_info only observes: in every cache state it leaves the cache
\* alone, fetches nothing and raises nothing, and with no cache file it
\* reports the fallback (rate 0.85, source "fallback", cache_valid false).
C9_RateInfoObserves ==
    Called("get_rate_info")
        => /\ cache = last.pre
           /\ ~last.out.fetched /\ ~last.out.wrote /\ ~last.out.raised
           /\ ~FileExists(last.pre)
                => /\ last.info.rate = FALLBACK_RATE
                   /\ last.info.source = "fallback"
                   /\ ~last.info.cache_valid
           /\ Corrupted(last.pre) /\ last.pre.kind # "norate"
                => ~last.info.cache_valid

C9_Witness ==
    /\ Called("get_rate_info")
    /\ last.pre.kind = "ok"
    /\ last.at - last.pre.ts >= CacheDuration
    /\ ~last.info.cache_valid
    /\ cache = last.pre

-----------------------------------------------------------------------------
(* The position calculator: properties *)

\* The inputs the proration law is about: a positive salary, a goal in [0,100]
InLawDomain == calc.op = "incomes" /\ calc.salary > 0 /\ calc.goal \in 0..100

\* (realized + potential) - salary * goal / 100, in hundredths of a cent
LawGap == (calc.realized + calc.potential) * 100 - calc.salary * calc.goal

\* C10 as stated: on every day of every month, for a positive salary and a
\* goal in [0,100], the realized and the potential income, each rounded to
\* cents, add up to exactly salary * goal / 100.
C10_PartitionExact == InLawDomain => LawGap = 0

\* C10 as amended: the two rounded terms add up to salary * goal / 100 to
\* within one cent.
C10_PartitionWithinACent ==
    InLawDomain => (LawGap >= -100 /\ LawGap <= 100)

C10_Witness ==
    /\ InLawDomain
    /\ calc.date.day < calc.date.dim
    /\ (calc.salary * calc.goal) % 100 = 0
    /\ LawGap = 100

\* The EUR fields of the snapshot a total was computed from, missing ones as 0
EurPart ==
    AssetGet(calc.assets, "bank_balance") + AssetGet(calc.assets, "cash_eur")
    + AssetGet(calc.assets, "investments")

\* C11: calculate_total_assets returns bank + eur + usd * rate + investments
\* (in cents, as the function rounds it) for every supplied rate, the rate 0
\* included, and bank + eur + usd + investments with no rate; missing fields
\* count as 0; it looks up no rate, so the cache is not read or written and
\* nothing is fetched.
C11_TotalAssets ==
    calc.op = "total_assets"
        => LET usd == AssetGet(calc.assets, "cash_usd")
               gap == (calc.out.total - EurPart) * 10000 - usd * calc.rate.v
           IN  /\ calc.rate.tag = "val" => (gap >= -5000 /\ gap <= 5000)
               /\ calc.rate = Val(0) => calc.out.total = EurPart
               /\ calc.rate = NoneV => calc.out.total = EurPart + usd
               /\ calc.out.lookups = 0
               /\ cache = MissingFile /\ last = Idle

C11_Witness ==
    /\ calc.op = "total_assets"
    /\ calc.rate = NoneV
    /\ calc.assets = Assets(Val(0), NoneV, Val(10001), NoneV)
    /\ calc.out.total = 10001

\* C12: called with pre-computed incomes, as the dashboard handlers call it,
\* calculate_global_position returns total_assets + realized_income +
\* potential_income for all numeric, non-negative incomes.
C12_PrecomputedIncomesAreSummed ==
    (/\ calc.op = "global_position"
     /\ calc.realized.tag = "val" /\ calc.potential.tag = "val"
     /\ calc.realized.v >= 0 /\ calc.potential.v >= 0)
        => calc.out = calc.total + calc.realized.v + calc.potential.v

\* C13: for a positive salary and a goal of at least 0, in a month of 28, 29,
\* 30 or 31 days, calculate_potential_daily_income is
\* remaining_days * (salary / days_in_month) * (goal / 100) rounded to cents,
\* remaining_days being days_in_month - current_day, and 0 when no day remains.
C13_PotentialOfRemainingDays ==
    (calc.op = "incomes" /\ calc.salary > 0 /\ calc.goal >= 0)
        => LET remaining_days == calc.date.dim - calc.date.day
               gap == calc.potential * calc.date.dim * 100
                      - remaining_days * calc.salary * calc.goal
           IN  /\ calc.date.dim \in 28..31
               /\ remaining_days <= 0 => calc.potential = 0
               /\ remaining_days > 0
                    => (gap >= -(calc.date.dim * 50) /\ gap <= calc.date.dim * 50)

C13_Witness ==
    /\ calc.op = "incomes"
    /\ calc.salary = 300000 /\ calc.goal = 75
    /\ calc.date = [day |-> 30, dim |-> 31]
    /\ calc.potential = 7258

\* The results of the income functions that take a goal percentage
GoalIncomeResults ==
    {calc.out.calculate_potential_income,
     calc.out.calculate_realized_monthly_income,
     calc.out.calculate_potential_daily_income}

\* C14: the four income functions never raise on bad input: when the salary
\* is None, not a number or <= 0 they return 0, and so do the three that take
\* a goal when the goal is below 0.
C14_BadInputGivesZero ==
    calc.op = "income_functions"
        => /\ (calc.salary.tag # "val" \/ calc.salary.v <= 0)
                => GoalIncomeResults \cup {calc.out.calculate_realized_income}
                       = {Val(0)}
           /\ (calc.goal.tag = "val" /\ calc.goal.v < 0)
                => GoalIncomeResults = {Val(0)}

\* C15: calculate_monthly_progress never propagates a failure: when the clock
\* raises, on one read or on every read, it returns the default snapshot
\* (day 1, 30 days, progress 0, 29 days remaining), and the real values
\* otherwise.
C15_ProgressNeverRaises ==
    calc.op = "monthly_progress"
        => /\ ~calc.out.raised
           /\ calc.fails > 0 => calc.out = DefaultProgress
           /\ calc.fails = 0
                => /\ calc.out.current_day = calc.date.day
                   /\ calc.out.days_in_month = calc.date.dim
                   /\ calc.out.remaining_days = calc.date.dim - calc.date.day

\* C16: validate_percentage signals a type error for every value that is not
\* a number (a string, None, a list), a range error for every number below 0
\* or above 100, and returns True for 0, for 100 and for every number between.
C16_ValidatePercentage ==
    calc.op = "validate_percentage"
        => /\ calc.value.tag # "val" => calc.out = "TypeError"
           /\ (calc.value.tag = "val" /\ (calc.value.v < 0 \/ calc.value.v > 10000))
                => calc.out = "ValueError"
           /\ (calc.value.tag = "val" /\ calc.value.v >= 0 /\ calc.value.v <= 10000)
                => calc.out = "True"

C16_Witness ==
    /\ calc.op = "validate_percentage"
    /\ calc.value = Val(10000)
    /\ calc.out = "True"

\* The keys a loaded structure must have to be fully populated
RequiredKeys ==
    IF api.op = "load_config" THEN {"monthly_salary", "daily_goal_percentage"}
    ELSE {"bank_balance", "cash_eur", "cash_usd", "investments"}

\* C17: load_config and load_assets never raise and always return a
\* fully-populated structure, whatever the stored file holds (nothing, no
\* JSON, any valid JSON) and whatever the storage operations do; a missing or
\* corrupted file yields the all-zero defaults.
C17_LoadersAlwaysReturnPopulated ==
    api.op \in {"load_config", "load_assets"}
        => /\ ~api.out.raised
           /\ api.out.value.kind = "map"
           /\ RequiredKeys \subseteq DOMAIN api.out.value.d
           /\ api.pre.kind \in {"missing", "corrupt"}
                => \A k \in RequiredKeys : api.out.value.d[k] = Val(0)

UpdateOps == {"update_assets", "update_config", "update_daily_goal"}

\* The mapping an accepted request asks to store: its fields, as floats
Requested ==
    CASE api.op = "update_assets" ->
            [f \in AssetFields |-> Float(api.req.d[f])]
      [] api.op = "update_config" ->
            [f \in ConfigFields |-> Float(api.req.d[f])]
      [] OTHER ->
            [f \in {"daily_goal_percentage"} |-> Float(api.req.d["goal_percentage"])]

\* The requested mapping with the stamp of the save
RequestedStamped ==
    [k \in DOMAIN Requested \cup {"updated_at"} |->
        IF k = "updated_at" THEN Val(now) ELSE Requested[k]]

\* The file an update request writes, after and before the request
Target == IF api.op = "update_assets" THEN assetsFile ELSE configFile

\* C18: a write failure of the persistence always surfaces: save_config and
\* save_assets raise when the write fails, an update request whose save fails
\* answers 500 with success false, and no update request reports success
\* unless the file holds its data.
C18_WriteFailureSurfaces ==
    api.op \in UpdateOps
        => /\ (api.out.save.attempted /\ api.io.w # "ok")
                => /\ api.out.save.raised
                   /\ api.out.status = 500
                   /\ ~api.out.success
           /\ api.out.success
                => /\ api.out.save.attempted /\ api.io.w = "ok"
                   /\ Target.kind = "map"
                   /\ \A f \in DOMAIN Requested :
                         f \in DOMAIN Target.d /\ Target.d[f] = Requested[f]

C18_Witness ==
    /\ api.op = "update_daily_goal"
    /\ api.out.save.attempted
    /\ api.io.w = "truncated"
    /\ api.out.status = 500
    /\ configFile = CorruptFile

\* C19 as stated: every update replaces the whole stored record with the
\* fields of the request; no update request (update-assets, update-config,
\* daily-goal) carries a field value over from the record stored before.
C19_EveryUpdateReplacesTheRecord ==
    (api.op \in UpdateOps /\ api.out.success)
        => Target = MapFile(RequestedStamped)

\* The record daily-goal starts from: the stored one, or the defaults that
\* load_config writes when none is stored
GoalBase ==
    IF api.pre.configFile.kind = "map" THEN api.pre.configFile.d
    ELSE DefaultConfig(now)

\* C19: update-assets and update-config replace the whole stored record with
\* the fields of the request and the updated_at stamp, carrying nothing over;
\* daily-goal replaces daily_goal_percentage alone and carries every other
\* field of the stored configuration over; the other file is left as it was.
C19_ReplacementAndCarryOver ==
    (api.op \in UpdateOps /\ api.out.success)
        => /\ api.op \in {"update_assets", "update_config"}
                => Target = MapFile(RequestedStamped)
           /\ api.op = "update_daily_goal"
                => /\ Target.kind = "map"
                   /\ DOMAIN Target.d
                        = DOMAIN GoalBase \cup {"daily_goal_percentage", "updated_at"}
                   /\ Target.d["daily_goal_percentage"]
                        = Requested["daily_goal_percentage"]
                   /\ \A f \in DOMAIN GoalBase
                                \ {"daily_goal_percentage", "updated_at"} :
                         Target.d[f] = GoalBase[f]
           /\ api.op = "update_assets" => configFile = api.pre.configFile
           /\ api.op = "update_config" => assetsFile = api.pre.assetsFile

C19_Witness ==
    /\ api.op = "update_daily_goal"
    /\ api.out.success
    /\ api.pre.configFile.kind = "map"
    /\ "created_at" \notin DOMAIN api.pre.configFile.d
    /\ api.pre.configFile.d["monthly_salary"] = Val(100000)
    /\ api.pre.configFile.d["daily_goal_percentage"] = Val(50)
    /\ configFile.d["monthly_salary"] = Val(100000)
    /\ configFile.d["daily_goal_percentage"] = Val(33)

\* C20: starting with no stored configuration, after any sequence of
\* update-config and daily-goal requests the stored configuration has
\* monthly_salary >= 0 and 0 <= daily_goal_percentage <= 100.
C20_StoredConfigInRange ==
    configFile.kind = "map"
        => /\ configFile.d["monthly_salary"].tag = "val"
           /\ configFile.d["monthly_salary"].v >= 0
           /\ InPercentRange(configFile.d["daily_goal_percentage"])

\* The fields an update request must carry
RequiredOf(op) ==
    CASE op = "update_assets" -> AssetFields
      [] op = "update_config" -> ConfigFields
      [] OTHER                -> {"goal_percentage"}

\* A number read from a request lies in [0, 100]
WithinPercent(x) == x.tag = "val" /\ x.v >= 0 /\ x.v <= 100

\* The request is one validation must reject: no JSON body, a required field
\* missing, a value that is no number, a negative salary, a goal outside [0, 100]
InvalidRequest ==
    \/ api.req.kind # "map"
    \/ ~(RequiredOf(api.op) \subseteq DOMAIN api.req.d)
    \/ \E f \in RequiredOf(api.op) :
          api.req.d[f].tag \notin {"val", "nan", "numstr", "nanstr"}
    \/ /\ api.op = "update_config"
       /\ \/ (Float(api.req.d["monthly_salary"]).tag = "val"
              /\ Float(api.req.d["monthly_salary"]).v < 0)
          \/ ~WithinPercent(Float(api.req.d["daily_goal_percentage"]))
    \/ /\ api.op = "update_daily_goal"
       /\ ~WithinPercent(Float(api.req.d["goal_percentage"]))

\* The loaders of a dashboard request met no storage failure
LoadersOk ==
    /\ api.io.rd_config = "ok" /\ api.io.w_config = "ok"
    /\ api.io.rd_assets = "ok" /\ api.io.w_assets = "ok"

\* C21: an update request that validation rejects answers 400 with success
\* false and leaves the stored configuration and the stored assets as they
\* were; a valid request (afterwards, or at any time) succeeds when its write
\* succeeds, and the dashboard-data request that follows it returns its values.
C21_RejectedLeavesStoreAndRecovers ==
    /\ api.op \in UpdateOps
         => /\ InvalidRequest
                 => /\ api.out.status = 400 /\ ~api.out.success
                    /\ configFile = api.pre.configFile
                    /\ assetsFile = api.pre.assetsFile
            /\ (/\ api.op \in {"update_assets", "update_config"}
                /\ ~InvalidRequest /\ api.io.w = "ok")
                 => /\ api.out.status = 200 /\ api.out.success
                    /\ Target = MapFile(RequestedStamped)
    /\ (api.op = "dashboard_data" /\ api.after.op # "none" /\ LoadersOk)
         => /\ api.out.status = 200 /\ api.out.success
            /\ api.after.op = "update_config"
                 => \A f \in ConfigFields :
                       api.out.body.config[f] = Float(api.after.req.d[f])
            /\ api.after.op = "update_assets"
                 => \A f \in AssetFields :
                       api.out.body.assets[f] = Float(api.after.req.d[f])

C21_Witness ==
    /\ api.op = "dashboard_data"
    /\ api.after.op = "update_config"
    /\ api.after.req.d["monthly_salary"] = NumStr(100000)
    /\ api.out.success
    /\ api.out.body.config["monthly_salary"] = Val(100000)
    /\ api.out.body.config["daily_goal_percentage"] = Val(50)

-----------------------------------------------------------------------------
(* cache_rate on several threads: properties *)

AllDone == \A i \in Writers : threads.w[i].pc = "done"

\* C22: once every thread that called cache_rate(r) with the same r has
\* completed, whatever the order of their opens and closes, the cache file
\* holds a well-formed entry of r, and get_cached_rate, called within the
\* hour, returns r.
C22_SimultaneousWritesLeaveValidEntry ==
    AllDone =>
        /\ cache.kind = "ok"
        /\ cache.rate = SameRate
        /\ Called("get_cached_rate") /\ last.at - cache.ts < CacheDuration
               => last.out.ret = Val(SameRate)

-----------------------------------------------------------------------------
(* calculate_global_position: which form a call is *)

\* total_assets plus the two incomes computed from a salary and a goal
\* percentage on the day of the call, for some side of the two roundings
RawInputsForm(salary, pct) ==
    \E ur \in BOOLEAN, upp \in BOOLEAN :
        calc.out = calc.total
                   + RealizedMonthlyIncomeOf(salary, pct, calc.date, ur)
                   + PotentialDailyIncomeOf(salary, pct, calc.date, upp)

ThirdIsPercentage ==
    calc.potential.tag = "val" /\ 0 <= calc.potential.v /\ calc.potential.v <= 10000

\* C23 as stated: the third argument alone decides.  The call is the
\* raw-inputs form exactly when the third argument is a number in [0, 100];
\* in every other case the second and third arguments are added to
\* total_assets unchanged (an argument that is no number adds nothing, or
\* makes the sum fail, which the function answers with 0).
C23_ThirdArgumentDecides ==
    calc.op = "global_position" =>
        IF ThirdIsPercentage
        THEN RawInputsForm(OrZero(calc.realized), calc.potential.v)
        ELSE calc.out \in {calc.total + OrZero(calc.realized) + OrZero(calc.potential), 0}

\* C23, amended: the second and third arguments are added unchanged exactly
\* when both are numbers and the third lies outside [0, 100]; when both are
\* numbers and the third lies in [0, 100] the incomes are computed from them
\* as salary and goal percentage; when either is None the incomes are
\* computed from `x or 0`, and the result is total_assets alone.
C23_BothArgumentsDecide ==
    calc.op = "global_position" =>
        IF calc.realized.tag = "val" /\ calc.potential.tag = "val"
        THEN IF ThirdIsPercentage
             THEN RawInputsForm(calc.realized.v, calc.potential.v)
             ELSE calc.out = calc.total + calc.realized.v + calc.potential.v
        ELSE /\ RawInputsForm(OrZero(calc.realized), OrZero(calc.potential))
             /\ calc.out = calc.total

\* The second argument None, the third 500.0: not added, total_assets alone
C23_Witness ==
    /\ calc.op = "global_position"
    /\ calc.realized = NoneV
    /\ calc.potential = Val(50000)
    /\ calc.total > 0
    /\ calc.out = calc.total

\* The file a reader finds while a write is under way (emptied by the open)
\* or after two writes have run into each other: json.load raises on it
Unreadable(f) == f.kind = "badjson"

-----------------------------------------------------------------------------
(* The dashboard's figures: properties *)

\* The salary and the goal a handler computed with, and the potential_income
\* of its response
Figures ==
    IF api.op = "update_daily_goal"
    THEN [salary |-> DictGet(api.out.configFile.d, "monthly_salary", Val(0)),
          goal |-> api.out.body.goal_percentage,
          potential |-> api.out.body.potential_income]
    ELSE [salary |-> DictGet(api.out.body.config, "monthly_salary", Val(0)),
          goal |-> DictGet(api.out.body.config, "daily_goal_percentage", Val(0)),
          potential |-> api.out.body.potential_income]

\* A handler answered with figures computed from a positive salary and a goal
ReportsFigures ==
    /\ api.op \in {"dashboard", "dashboard_data", "update_daily_goal"}
    /\ api.out.status = 200
    /\ api.op = "dashboard" => ~api.out.body.first_time
    /\ Figures.salary.tag = "val" /\ Figures.salary.v > 0
    /\ Figures.goal.tag = "val" /\ Figures.goal.v >= 0
    /\ Figures.potential.tag = "val"

\* C25 as stated: the potential_income of /, /api/dashboard-data and
\* /api/daily-goal is remaining_days * (monthly_salary / days_in_month) *
\* (goal / 100), to the cent, and 0 on the last day of the month.
C25_PotentialOfRemainingDaysShown ==
    ReportsFigures =>
        LET remaining_days == today.dim - today.day
            gap == Figures.potential.v * today.dim * 100
                   - remaining_days * Figures.salary.v * Figures.goal.v
        IN  /\ 2 * gap <= today.dim * 100
            /\ 2 * gap >= -(today.dim * 100)
            /\ remaining_days = 0 => Figures.potential.v = 0

\* C25, amended: the potential_income of the three handlers is one day's
\* share of the salary at the goal rate, (monthly_salary / days_in_month) *
\* (goal / 100) rounded to cents, the same on every day of the month, the
\* last one included.
C25_PotentialOfOneDayShown ==
    ReportsFigures =>
        LET gap == Figures.potential.v * today.dim * 100
                   - Figures.salary.v * Figures.goal.v
        IN  /\ 2 * gap <= today.dim * 100
            /\ 2 * gap >= -(today.dim * 100)

\* /api/daily-goal on the last day of a month of 31 days: 300.00 at 33%
\* shows 3.19
C25_Witness ==
    /\ api.op = "update_daily_goal"
    /\ ReportsFigures
    /\ today = [day |-> 31, dim |-> 31]
    /\ Figures.salary = Val(30000)
    /\ Figures.goal = Val(33)
    /\ Figures.potential = Val(319)

-----------------------------------------------------------------------------
(* The provider from an empty cache: properties *)

\* C26: bounded staleness.  From an empty cache, after any calls of
\* get_exchange_rate and refresh_exchange_rate with any answer of the network
\* and any outcome of the cache write, the clock moving forward, a value
\* get_exchange_rate returns is the fallback, or the rate this call fetched,
\* or the rate of the entry a successful fetch stored less than an hour
\* before the call.
C26_BoundedStaleness ==
    Called("get_exchange_rate") =>
        \/ last.out.ret = Val(FALLBACK_RATE)
        \/ last.out.fetched /\ last.out.ret = FetchRateFromApi(last.resp)
        \/ /\ ~last.out.fetched
           /\ stored.some
           /\ last.out.ret = Val(stored.rate)
           /\ 0 <= last.at - stored.at
           /\ last.at - stored.at < CacheDuration

\* A rate served one second before its hour is over, fetching nothing
C26_Witness ==
    /\ Called("get_exchange_rate")
    /\ ~last.out.fetched
    /\ stored.some
    /\ last.out.ret = Val(stored.rate)
    /\ last.out.ret # Val(FALLBACK_RATE)
    /\ last.at - stored.at = CacheDuration - 1

\* Two calls that follow one another: a refresh_exchange_rate that found a
\* valid entry and fetched nothing, then a get_exchange_rate that fetches
\* nothing either, while the entry the refresh found is younger than an hour
RefreshThenGet ==
    /\ Called("refresh_exchange_rate")
    /\ ValidEntry(last.pre, last.at)
    /\ FetchRateFromApi(last.resp) = NoneV
    /\ last'.op = "get_exchange_rate"
    /\ FetchRateFromApi(last'.resp) = NoneV
    /\ last'.at >= last.at
    /\ last'.at - last.pre.ts < CacheDuration

\* C27: refresh_exchange_rate never makes the answer worse.  When it finds
\* a valid entry of rate r and its fetch fails, a get_exchange_rate that
\* follows within the validity of r, the network still failing, returns r.
C27_RefreshNeverWorse ==
    [][RefreshThenGet => last'.out.ret = Val(last.pre.rate)]_vars

-----------------------------------------------------------------------------
(* /api/daily-goal beside /api/update-config: properties *)

\* C28: when a /api/daily-goal request has completed, the stored
\* monthly_salary is the one the most recently completed /api/update-config
\* wrote, however the two requests' loads and saves were interleaved.
C28_SalaryNotLost ==
    (threads.dg.pc = "done" /\ threads.written.some)
        => /\ configFile.kind = "map"
           /\ DictGet(configFile.d, "monthly_salary", NoneV) = threads.written.salary

-----------------------------------------------------------------------------
(* calculate_global_position while the clock moves: properties *)

\* C29: in the raw-inputs form the two incomes are taken on one calendar
\* day, so that, whenever the call starts and however the clock moves while
\* it runs, the result less total_assets exceeds monthly_salary * goal / 100
\* by no more than the rounding of two terms rounded to cents (one cent).
C29_IncomesOfOneDay ==
    (/\ calc.op = "global_position_during"
     /\ calc.realized.tag = "val" /\ calc.potential.tag = "val"
     /\ 0 <= calc.potential.v /\ calc.potential.v <= 10000
     /\ calc.realized.v > 0)
        => (calc.out - calc.total - 1) * 10000 <= calc.realized.v * calc.potential.v

-----------------------------------------------------------------------------
(* get_rate_info beside get_cached_rate *)

\* C30: in every cache state get_rate_info reports cache_valid exactly when
\* get_cached_rate, on the same file at the same instant, returns a rate,
\* and the rate it then reports is that rate.
C30_RateInfoAgreesWithCache ==
    Called("get_rate_info")
        => LET cached_rate == GetCachedRate(last.pre, last.at)
           IN  /\ last.info.cache_valid <=> cached_rate # NoneV
               /\ last.info.cache_valid => Val(last.info.rate) = cached_rate

====
